---- MODULE Spec2Model ----
(***************************************************************************)
(* Market-data relay: contract subscription manager (ContractManager),     *)
(* connection supervisor (MarketDataService) and the two adapters          *)
(* (GatewayClient, ShioajiClient), modelled from the Python sources.       *)
(*                                                                         *)
(* A contract handle is identified by its code; the code of the contract   *)
(* stored in the directory under key k is k itself, as in the fixtures of  *)
(* tests/test_contract_manager.py (contract1.code = "TXO18000C").          *)
(***************************************************************************)
EXTENDS Integers, Sequences, FiniteSets, TLC

VARIABLES
    subscribed,   \* ContractManager._subscribed_contracts : set of codes
    cache,        \* ContractManager._contract_cache       : its key set
    live,         \* provider side: codes with an accepted subscribe, not unsubscribed since
    directory,    \* api.Contracts.Options as the provider exposes it
    calls,        \* provider quote calls issued by the last manager operation
                  \* (in the service: by the current loop iteration or stop() call)
    lastOp,       \* the last manager operation, its inputs and what it resolved
    pure,         \* one application of a pure helper: function, argument, result
    running,      \* MarketDataService._running
    pc,           \* where each thread is: main (start), ctl (stop), poll (snapshots)
    pending,      \* the exception start() is handling: none, error, kbd
    gw,           \* GatewayClient: _client is set, _connected
    sj,           \* ShioajiClient: _api is set, _logged_in
    manager,      \* MarketDataService._contract_manager is set
    registered,   \* the tick and bid-ask callbacks are registered with the provider
    currentPrice, \* MarketDataService._current_index_price
    phase,        \* lifecycle: idle, starting, running, stopping, stopped, failed
    startInfo,    \* the last start() call: phase it was made in, its result
    stopInfo,     \* the last stop() call: phase it was made in, returned at once
    stopSteps,    \* per thread, the steps its last stop() call has performed
    missing,      \* the required environment variables that are not set
    clock,        \* wall clock, read by datetime.now()
    lastTickTime,   \* MarketDataHandler._last_tick_time
    lastBidaskTime, \* MarketDataHandler._last_bidask_time
    fd,           \* the last callback or loop iteration: its input and what it did
    round,        \* the snapshot thread's round: its handles and the calls made so far
    heartbeats    \* the heartbeats sent in the heartbeat period the main loop is in

cmVars == <<subscribed, cache, live, directory, calls, lastOp>>

svcVars == <<running, pc, pending, gw, sj, manager, registered, currentPrice, phase,
             startInfo, stopInfo, stopSteps, missing>>

feedVars == <<clock, lastTickTime, lastBidaskTime, fd, round, heartbeats>>

vars == <<subscribed, cache, live, directory, calls, lastOp, pure,
          running, pc, pending, gw, sj, manager, registered, currentPrice, phase,
          startInfo, stopInfo, stopSteps, missing, clock, lastTickTime,
          lastBidaskTime, fd, round, heartbeats>>

----------------------------------------------------------------------------
(* Program constants and bounds                                            *)

StrikeInterval == 100

\* largest window size N passed to update_subscriptions by the manager's clients
MaxRange == 1

\* prices are the first MaxPriceSteps multiples of half the strike interval
MaxPriceSteps == 2

\* the directory lists strikes among the first MaxDirStrikes multiples
MaxDirStrikes == 2

\* prices given to the ATM computation on its own
MaxAtmPrice == 18500

None == "None"

\* an optional number (None or a value) is the set of its values
NoNumber == {}

Number(v) == {v}

HalfInterval == StrikeInterval \div 2

Prices == {k * HalfInterval : k \in 1..MaxPriceSteps}

Ranges == 0..MaxRange

\* the option type the manager's client passes (market_data_service.py:356)
OptionTypes == {"call"}

DirStrikes == {k * StrikeInterval : k \in 1..MaxDirStrikes}

Shapes == {"attr", "dict", "missing"}

\* a directory lists every strike, or every strike but the lowest
DirContents == {DirStrikes, DirStrikes \ {StrikeInterval}}

\* the strike whose entry a faulty directory cannot read
FaultyStrike == 2 * StrikeInterval

\* raises: the strike whose directory access raises an exception other than
\* KeyError, IndexError and AttributeError (0: none)
Directories ==
    {[shape |-> s, strikes |-> K, raises |-> 0] : s \in {"attr", "dict"}, K \in DirContents}
        \cup {[shape |-> "missing", strikes |-> {}, raises |-> 0]}
        \cup {[shape |-> "attr", strikes |-> DirStrikes, raises |-> FaultyStrike]}

SubOutcomes == {"ok", "index_raises", "tick_raises", "bidask_raises"}

----------------------------------------------------------------------------
(* ContractManager: pure helpers                                           *)

\* Python 3 round(num / den) for num >= 0, den > 0: ties go to the even integer
PyRound(num, den) ==
    LET q == num \div den
        r == num % den
    IN  IF 2 * r < den THEN q
        ELSE IF 2 * r > den THEN q + 1
        ELSE IF q % 2 = 0 THEN q ELSE q + 1

CalculateAtmStrike(price) == PyRound(price, StrikeInterval) * StrikeInterval

CalculateTargetStrikesWithZero(atm_strike, range_strikes) ==
    LET all == [i \in 1..(2 * range_strikes + 1) |->
                    atm_strike + (i - range_strikes - 1) * StrikeInterval]
    IN  SelectSeq(all, LAMBDA strike : strike >= 0)

CalculateTargetStrikes(atm_strike, range_strikes) ==
    LET all == [i \in 1..(2 * range_strikes + 1) |->
                    atm_strike + (i - range_strikes - 1) * StrikeInterval]
    IN  SelectSeq(all, LAMBDA strike : strike > 0)

BuildContractKey(strike, option_type) ==
    <<"TXO", strike, IF option_type = "call" THEN "C" ELSE "P">>

\* hasattr(options, key) / key in options: the directory holds a call and a
\* put contract for each of its strikes
HasKey(options, key) ==
    /\ options.shape \in {"attr", "dict"}
    /\ key[2] \in options.strikes

SafeGetContract(options, key) ==
    IF options.shape = "attr" /\ HasKey(options, key) THEN key
    ELSE IF options.shape = "dict" /\ HasKey(options, key) THEN key
    ELSE None

\* the exception the access of one entry of the directory raises ("other":
\* one that is neither a KeyError nor an AttributeError)
AccessErrors == {"none", "KeyError", "AttributeError", "other"}

\* _safe_get_contract when the access of the key's entry (hasattr, or "in"
\* for a keyed collection) raises error: hasattr turns an AttributeError
\* into False, the handler of the function names KeyError and AttributeError,
\* any other exception leaves the function
SafeGetContractCall(options, key, error) ==
    IF options.shape = "missing" \/ error = "none"
    THEN [value |-> SafeGetContract(options, key), raised |-> FALSE]
    ELSE IF options.shape = "attr" /\ error = "AttributeError"
    THEN [value |-> None, raised |-> FALSE]
    ELSE IF error \in {"KeyError", "AttributeError"}
    THEN [value |-> None, raised |-> FALSE]
    ELSE [value |-> None, raised |-> TRUE]

\* the exception the directory raises for the entry of a strike
AccessErrorAt(options, strike) ==
    IF options.raises # 0 /\ strike = options.raises THEN "other" ELSE "none"

\* The lookup loop over the strikes from position i on.  When the directory
\* access raises an exception the inner handler does not name, the outer
\* handler ends the loop and what was found so far is returned.
RECURSIVE FindLoop(_, _, _, _)
FindLoop(strikes, i, option_type, options) ==
    IF i > Len(strikes) THEN <<>>
    ELSE LET r == SafeGetContractCall(options, BuildContractKey(strikes[i], option_type),
                                      AccessErrorAt(options, strikes[i]))
             contract == r.value
             rest == FindLoop(strikes, i + 1, option_type, options)
         IN  IF r.raised THEN <<>>
             ELSE IF contract # None THEN <<contract>> \o rest ELSE rest

FindContractsByStrikes(strikes, option_type, options) ==
    IF options.shape = "missing" THEN <<>>
    ELSE FindLoop(strikes, 1, option_type, options)

Range(s) == {s[i] : i \in 1..Len(s)}

\* an enumeration of a set of codes (Python iterates a set in an order of its own)
CodeRank(code) == 2 * code[2] + (IF code[3] = "C" THEN 0 ELSE 1)

RECURSIVE SetToSeq(_)
SetToSeq(S) ==
    IF S = {} THEN <<>>
    ELSE LET c == CHOOSE x \in S : \A y \in S : CodeRank(x) <= CodeRank(y)
         IN  <<c>> \o SetToSeq(S \ {c})

Call(op, code, kind, ok) == [op |-> op, code |-> code, kind |-> kind, ok |-> ok]

----------------------------------------------------------------------------
(* ContractManager: operations on the manager state                        *)
(* m = [subscribed, cache, live]; each returns the new fields and the      *)
(* provider calls it issued                                                *)

\* a subscribe that records only the contract it subscribed
SubscribeContractsFirstOnly(m, contracts, outcome) ==
    IF contracts = <<>> \/ outcome # "ok"
    THEN [subscribed |-> m.subscribed, live |-> m.live, calls |-> <<>>]
    ELSE [subscribed |-> m.subscribed \cup {contracts[1]},
          live |-> m.live \cup {contracts[1]},
          calls |-> <<Call("subscribe", contracts[1], "tick", TRUE),
                      Call("subscribe", contracts[1], "bidask", TRUE)>>]

\* outcome tells which step of the one try block raises: the keyed lookup
\* Options[contracts[0].code], the tick subscribe or the bid-ask subscribe
SubscribeContracts(m, contracts, outcome) ==
    IF contracts = <<>> THEN [subscribed |-> m.subscribed, live |-> m.live, calls |-> <<>>]
    ELSE LET first == contracts[1]
         IN  CASE outcome = "index_raises" ->
                    [subscribed |-> m.subscribed, live |-> m.live, calls |-> <<>>]
               [] outcome = "tick_raises" ->
                    [subscribed |-> m.subscribed, live |-> m.live,
                     calls |-> <<Call("subscribe", first, "tick", FALSE)>>]
               [] outcome = "bidask_raises" ->
                    [subscribed |-> m.subscribed,
                     live |-> m.live \cup {first},
                     calls |-> <<Call("subscribe", first, "tick", TRUE),
                                 Call("subscribe", first, "bidask", FALSE)>>]
               [] OTHER ->
                    [subscribed |-> m.subscribed \cup Range(contracts),
                     live |-> m.live \cup {first},
                     calls |-> <<Call("subscribe", first, "tick", TRUE),
                                 Call("subscribe", first, "bidask", TRUE)>>]

\* failUnsub: the codes whose provider unsubscribe raises
UnsubscribeContracts(m, contract_codes, failUnsub) ==
    LET called == contract_codes \cap m.cache
        failed == called \cap failUnsub
        order == SetToSeq(called)
    IN  [subscribed |-> m.subscribed \ (contract_codes \ failed),
         live |-> m.live \ (called \ failed),
         calls |-> [i \in 1..Len(order) |->
                        Call("unsubscribe", order[i], "all", order[i] \notin failed)]]

\* a lookup loop that forgets to cache what it found
CacheContractsSkipped(contract_cache, contracts) == contract_cache

\* each contract found is cached under its code
CacheContracts(contract_cache, contracts) == contract_cache \cup Range(contracts)

\* update_subscriptions without 'if not target_contracts: return'
UpdateSubscriptionsNoReturn(m, current_price, range_strikes, option_type, options, outcome, failUnsub) ==
    LET atm_strike == CalculateAtmStrike(current_price)
        target_strikes == CalculateTargetStrikes(atm_strike, range_strikes)
        target_contracts ==
            FindContractsByStrikes(target_strikes, option_type, options)
        cache1 == CacheContracts(m.cache, target_contracts)
        target_codes == Range(target_contracts)
        to_subscribe == target_codes \ m.subscribed
        to_unsubscribe == m.subscribed \ target_codes
        m1 == [subscribed |-> m.subscribed, cache |-> cache1, live |-> m.live]
        sub == SubscribeContracts(m1,
                   SelectSeq(target_contracts, LAMBDA c : c \in to_subscribe), outcome)
        m2 == [subscribed |-> sub.subscribed, cache |-> cache1, live |-> sub.live]
        unsub == UnsubscribeContracts(m2, to_unsubscribe, failUnsub)
    IN  IF FALSE
        THEN [subscribed |-> m.subscribed, cache |-> cache1, live |-> m.live,
              calls |-> <<>>, target |-> {}]
        ELSE [subscribed |-> unsub.subscribed, cache |-> cache1, live |-> unsub.live,
              calls |-> sub.calls \o unsub.calls, target |-> target_codes]

UpdateSubscriptions(m, current_price, range_strikes, option_type, options, outcome, failUnsub) ==
    LET atm_strike == CalculateAtmStrike(current_price)
        target_strikes == CalculateTargetStrikes(atm_strike, range_strikes)
        target_contracts ==
            FindContractsByStrikes(target_strikes, option_type, options)
        cache1 == CacheContracts(m.cache, target_contracts)
        target_codes == Range(target_contracts)
        to_subscribe == target_codes \ m.subscribed
        to_unsubscribe == m.subscribed \ target_codes
        m1 == [subscribed |-> m.subscribed, cache |-> cache1, live |-> m.live]
        sub == SubscribeContracts(m1,
                   SelectSeq(target_contracts, LAMBDA c : c \in to_subscribe), outcome)
        m2 == [subscribed |-> sub.subscribed, cache |-> cache1, live |-> sub.live]
        unsub == UnsubscribeContracts(m2, to_unsubscribe, failUnsub)
    IN  IF target_contracts = <<>>
        THEN [subscribed |-> m.subscribed, cache |-> cache1, live |-> m.live,
              calls |-> <<>>, target |-> {}]
        ELSE [subscribed |-> unsub.subscribed, cache |-> cache1, live |-> unsub.live,
              calls |-> sub.calls \o unsub.calls, target |-> target_codes]

GetSubscribedContracts(m) == {code \in m.subscribed : code \in m.cache}

UnsubscribeAllOp(m, failUnsub) ==
    IF m.subscribed # {}
    THEN UnsubscribeContracts(m, m.subscribed, failUnsub)
    ELSE [subscribed |-> m.subscribed, live |-> m.live, calls |-> <<>>]

----------------------------------------------------------------------------
(* The manager driven through its public methods                           *)

Manager == [subscribed |-> subscribed, cache |-> cache, live |-> live]

\* lastOp: kind and inputs of the operation, S the subscribed set it started
\* from, T the target codes it resolved, clean: no provider call raised
\* during it, repeat: it is a refresh that directly follows a refresh with
\* the same inputs, prevClean: the operation before it was clean
NoOp == [kind |-> "init", price |-> 0, n |-> 0, type |-> "call",
         S |-> {}, T |-> {}, clean |-> TRUE, repeat |-> FALSE, prevClean |-> TRUE]

NoPure == [fn |-> "none", arg |-> 0, done |-> FALSE, result |-> 0]

ManagerInit ==
    /\ subscribed = {}
    /\ cache = {}
    /\ live = {}
    /\ directory \in Directories
    /\ calls = <<>>
    /\ lastOp = NoOp

Threads == {"main", "ctl", "poll"}

NoStart == [from |-> "none", result |-> "none"]

NoStop == [from |-> "none", noop |-> FALSE]

\* GatewayClient.__init__: client is self._client, connected self._connected;
\* session is the state of the Socket.IO client (none, open, retrying: the
\* transport is down and the client reconnects on its own, closed), asked the
\* last of connect() and disconnect() that has returned
NoGateway == [client |-> FALSE, connected |-> FALSE, session |-> "none", asked |-> "none"]

\* GatewayClient.connect: nothing when connected; else a new client, whose
\* failure to connect raises ConnectionError
GatewayConnect(g, ok) ==
    IF g.connected THEN [g EXCEPT !.asked = "connect"]
    ELSE IF ok THEN [client |-> TRUE, connected |-> TRUE, session |-> "open", asked |-> "connect"]
    ELSE [client |-> TRUE, connected |-> FALSE, session |-> "closed", asked |-> g.asked]

\* GatewayClient.disconnect: nothing unless there is a client and the flag is
\* set; else client.disconnect(), which can raise, then the flag is cleared
GatewayDisconnect(g, ok) ==
    IF g.client /\ g.connected
    THEN IF ok THEN [g EXCEPT !.connected = FALSE, !.session = "closed", !.asked = "disconnect"]
         ELSE g
    ELSE [g EXCEPT !.asked = "disconnect"]

\* MarketDataService.__init__ with freshly built adapters
ServiceIdle ==
    /\ running = FALSE
    /\ pc = [t \in Threads |-> "idle"]
    /\ pending = "none"
    /\ gw = NoGateway
    /\ sj = [api |-> FALSE, logged_in |-> FALSE]
    /\ manager = FALSE
    /\ registered = FALSE
    /\ currentPrice = NoNumber
    /\ phase = "idle"
    /\ startInfo = NoStart
    /\ stopInfo = NoStop
    /\ stopSteps = [t \in {"main", "ctl"} |-> <<>>]

\* MarketDataHandler.__init__: no emit time recorded yet
NoTimes == [code \in {} |-> 0]

NoFeed == [kind |-> "none"]

\* no heartbeat yet: period is the number of the heartbeat period, count the
\* heartbeats sent in it, closed the count of the period before it once over
NoBeats == [period |-> 0, count |-> 0, closed |-> {}]

\* no round of the snapshot thread yet
NoRound == [status |-> "none", handles |-> <<>>, i |-> 1, called |-> <<>>, raised |-> {}]

FeedIdle ==
    /\ clock = 0
    /\ lastTickTime = NoTimes
    /\ lastBidaskTime = NoTimes
    /\ fd = NoFeed
    /\ round = NoRound
    /\ heartbeats = NoBeats

Init ==
    /\ missing = {}
    /\ FeedIdle
    /\ ManagerInit
    /\ pure = NoPure
    /\ ServiceIdle

\* what a refresh with these inputs resolves, before any provider call
Resolved(price, n, type) ==
    Range(FindContractsByStrikes(CalculateTargetStrikes(CalculateAtmStrike(price), n),
                                 type, directory))

\* the outcomes the subscribe try block can have: the keyed lookup
\* Options[code] can raise only on a directory that is not a keyed collection
OutcomesFor(T) ==
    IF T \ subscribed = {} THEN {"ok"}
    ELSE IF directory.shape = "attr" THEN SubOutcomes
    ELSE SubOutcomes \ {"index_raises"}

\* one call of update_subscriptions with the given outcomes of its provider calls
DoRefresh(price, n, type, outcome, failUnsub) ==
    LET r == UpdateSubscriptions(Manager, price, n, type, directory, outcome, failUnsub)
    IN  /\ subscribed' = r.subscribed
        /\ cache' = r.cache
        /\ live' = r.live
        /\ calls' = r.calls

\* one call of unsubscribe_all with the given outcomes of its provider calls
DoUnsubscribeAll(failUnsub) ==
    LET r == UnsubscribeAllOp(Manager, failUnsub)
    IN  /\ subscribed' = r.subscribed
        /\ live' = r.live
        /\ calls' = r.calls

Refresh(price, n, type) ==
    LET T == Resolved(price, n, type)
    IN  \E outcome \in OutcomesFor(T),
           failUnsub \in SUBSET ((subscribed \ T) \cap cache) :
          /\ DoRefresh(price, n, type, outcome, failUnsub)
          /\ lastOp' = [kind |-> "refresh", price |-> price, n |-> n,
                        type |-> type, S |-> subscribed, T |-> T,
                        clean |-> outcome = "ok" /\ failUnsub = {},
                        repeat |-> /\ lastOp.kind = "refresh"
                                   /\ lastOp.price = price
                                   /\ lastOp.n = n
                                   /\ lastOp.type = type,
                        prevClean |-> lastOp.clean]
          /\ UNCHANGED <<directory, pure, svcVars, feedVars>>

UnsubscribeAll ==
    \E failUnsub \in SUBSET (subscribed \cap cache) :
        /\ DoUnsubscribeAll(failUnsub)
        /\ lastOp' = [NoOp EXCEPT !.kind = "unsubscribe_all", !.S = subscribed,
                                  !.clean = (failUnsub = {}),
                                  !.prevClean = lastOp.clean]
        /\ UNCHANGED <<cache, directory, pure, svcVars, feedVars>>

\* the provider replaces its contract directory (fetch_contracts, expiry roll)
DirectoryChange ==
    \E d \in Directories \ {directory} :
        /\ directory' = d
        /\ calls' = <<>>
        /\ lastOp' = [NoOp EXCEPT !.kind = "directory", !.prevClean = lastOp.clean]
        /\ UNCHANGED <<subscribed, cache, live, pure, svcVars, feedVars>>

Next ==
    \/ \E price \in Prices, n \in Ranges, type \in OptionTypes : Refresh(price, n, type)
    \/ UnsubscribeAll
    \/ DirectoryChange

Spec == Init /\ [][Next]_vars

----------------------------------------------------------------------------
(* The pure helpers applied to inputs of their own                         *)

AtmPrices == 1..MaxAtmPrice

\* largest window size given to the target-strike computation on its own
MaxPureRange == 3

\* the centre strikes given to it: the multiples of half the interval
TargetAtms == {k * HalfInterval : k \in 0..(MaxAtmPrice \div HalfInterval)}

PureInit ==
    /\ subscribed = {}
    /\ cache = {}
    /\ live = {}
    /\ directory = [shape |-> "missing", strikes |-> {}, raises |-> 0]
    /\ calls = <<>>
    /\ lastOp = NoOp
    /\ \/ pure \in {[fn |-> "atm", arg |-> p, done |-> FALSE, result |-> 0] : p \in AtmPrices}
       \/ pure \in {[fn |-> "strikes", arg |-> <<atm, n>>, done |-> FALSE, result |-> <<>>] :
                        atm \in TargetAtms, n \in 0..MaxPureRange}
    /\ ServiceIdle
    /\ missing = {}
    /\ FeedIdle

CalcAtm ==
    /\ pure.fn = "atm"
    /\ ~pure.done
    /\ pure' = [pure EXCEPT !.done = TRUE, !.result = CalculateAtmStrike(pure.arg)]
    /\ UNCHANGED <<cmVars, svcVars, feedVars>>

CalcStrikes ==
    /\ pure.fn = "strikes"
    /\ ~pure.done
    /\ pure' = [pure EXCEPT !.done = TRUE,
                            !.result = CalculateTargetStrikes(pure.arg[1], pure.arg[2])]
    /\ UNCHANGED <<cmVars, svcVars, feedVars>>

PureNext == CalcAtm \/ CalcStrikes

SpecPure == PureInit /\ [][PureNext]_vars

\* the keys and the directories _safe_get_contract is called with
LookupKeys == {BuildContractKey(strike, option_type) :
                  strike \in DirStrikes \cup {FaultyStrike + StrikeInterval},
                  option_type \in {"call", "put"}}

LookupArgs ==
    {<<options, key, error>> : options \in Directories, key \in LookupKeys, error \in AccessErrors}

LookupInit ==
    /\ subscribed = {}
    /\ cache = {}
    /\ live = {}
    /\ directory = [shape |-> "missing", strikes |-> {}, raises |-> 0]
    /\ calls = <<>>
    /\ lastOp = NoOp
    /\ pure \in {[fn |-> "lookup", arg |-> a, done |-> FALSE,
                   result |-> [value |-> None, raised |-> FALSE]] :
                     a \in {b \in LookupArgs : b[1].shape = "missing" => b[3] = "none"}}
    /\ ServiceIdle
    /\ missing = {}
    /\ FeedIdle

GetContract ==
    /\ pure.fn = "lookup"
    /\ ~pure.done
    /\ pure' = [pure EXCEPT !.done = TRUE,
                            !.result = SafeGetContractCall(pure.arg[1], pure.arg[2], pure.arg[3])]
    /\ UNCHANGED <<cmVars, svcVars, feedVars>>

LookupNext == GetContract

SpecLookup == LookupInit /\ [][LookupNext]_vars

----------------------------------------------------------------------------
(* MarketDataService: start(), stop(), the main loop, the snapshot thread  *)
(* and the provider's tick callback.  The main thread calls start(); the   *)
(* thread ctl calls stop() at any time.                                    *)

\* the window size the supervisor passes to update_subscriptions
DefaultRangeStrikes == 8

\* the values a tick can carry in close and in price
TickValues == {NoNumber, Number(0 - HalfInterval), Number(0), Number(StrikeInterval)}

Ticks == [close : TickValues, price : TickValues]

\* Python truth value of an optional number
Truthy(v) == v # NoNumber /\ v # Number(0)

\* the test "v and v > 0" on an optional number
Positive(v) == Truthy(v) /\ \A x \in v : x > 0

\* _update_current_price: close or price, kept when it is > 0
UpdateCurrentPriceAny(current, tick) ==
    LET p == IF Truthy(tick.close) THEN tick.close ELSE tick.price
    IN  IF p # NoNumber THEN p ELSE current

UpdateCurrentPrice(current, tick) ==
    LET p == IF Truthy(tick.close) THEN tick.close ELSE tick.price
    IN  IF Positive(p) THEN p ELSE current

\* start(): if self._running: raise RuntimeError
StartRejectsNever == FALSE

StartRejects == running

\* stop(): if not self._running: return
StopReturnsEarlyNever == FALSE

StopReturnsEarly == ~running

Goto(t, loc) == pc' = [pc EXCEPT ![t] = loc]

\* an exception of a startup step reaches the except Exception clause of start()
Fail ==
    /\ pending' = "error"
    /\ Goto("main", "h_emit")

\* sys.exit(1): the process ends
Exit ==
    /\ pc' = [t \in Threads |-> "exited"]
    /\ startInfo' = [startInfo EXCEPT !.result = "exit"]

\* the environment variables the configuration and the service read
EnvVars == {"SJ_KEY", "SJ_SEC", "CA_CERT_PATH", "CA_PASSWORD", "GATEWAY_URL"}

\* required_vars of _validate_environment
ValidatedVars == {"SJ_KEY", "SJ_SEC", "GATEWAY_URL"}

\* the variables the fields of ShioajiConfig are loaded from, which
\* _validate_credentials tests for emptiness
CredentialVars == {"SJ_KEY", "SJ_SEC", "CA_CERT_PATH", "CA_PASSWORD"}

\* the directories the provider serves while the service runs
SvcDirectories == {d \in Directories : d.shape = "attr" /\ d.strikes = DirStrikes}

SvcInit ==
    /\ subscribed = {}
    /\ cache = {}
    /\ live = {}
    /\ directory \in SvcDirectories
    /\ calls = <<>>
    /\ lastOp = NoOp
    /\ pure = NoPure
    /\ ServiceIdle
    /\ missing \in SUBSET EnvVars
    /\ FeedIdle

\* the statements of start() in the order of the source: steps 1 to 8, then
\* _run_main_loop
StartNextReadyFirst(loc) ==
    CASE loc = "idle" -> "validate"
      [] loc = "validate" -> "gw_connect"
      [] loc = "gw_connect" -> "sj_connect"
      [] loc = "sj_connect" -> "build"
      [] loc = "build" -> "ready"
      [] loc = "ready" -> "callbacks"
      [] loc = "callbacks" -> "spawn"
      [] loc = "spawn" -> "set_running"
      [] OTHER -> "loop"

StartNext(loc) ==
    CASE loc = "idle" -> "validate"
      [] loc = "validate" -> "gw_connect"
      [] loc = "gw_connect" -> "sj_connect"
      [] loc = "sj_connect" -> "build"
      [] loc = "build" -> "callbacks"
      [] loc = "callbacks" -> "ready"
      [] loc = "ready" -> "spawn"
      [] loc = "spawn" -> "set_running"
      [] OTHER -> "loop"

StartCall ==
    /\ pc["main"] = "idle"
    /\ IF StartRejects
       THEN /\ startInfo' = [from |-> phase, result |-> "already_running"]
            /\ UNCHANGED <<pc, phase, stopInfo, stopSteps>>
       ELSE /\ startInfo' = [from |-> phase, result |-> "none"]
            /\ stopInfo' = NoStop
            /\ stopSteps' = [t \in {"main", "ctl"} |->
                               IF pc[t] = "idle" THEN <<>> ELSE stopSteps[t]]
            /\ Goto("main", StartNext("idle"))
            /\ phase' = "starting"
    /\ UNCHANGED <<cmVars, pure, running, pending, gw, sj, manager, registered, currentPrice, missing, feedVars>>

\* step 1: _validate_environment
Validate ==
    /\ pc["main"] = "validate"
    /\ IF missing \cap ValidatedVars = {}
       THEN Goto("main", StartNext("validate")) /\ UNCHANGED startInfo
       ELSE Exit
    /\ UNCHANGED <<cmVars, pure, running, pending, gw, sj, manager, registered, currentPrice, phase, stopInfo, stopSteps, missing, feedVars>>

\* step 2: GatewayClient.connect
GwConnect ==
    /\ pc["main"] = "gw_connect"
    /\ \E ok \in IF gw.connected THEN {TRUE} ELSE BOOLEAN :
          /\ gw' = GatewayConnect(gw, ok)
          /\ IF ok THEN Goto("main", StartNext("gw_connect")) /\ UNCHANGED pending
             ELSE Fail
    /\ UNCHANGED <<cmVars, pure, running, sj, manager, registered, currentPrice, phase, startInfo, stopInfo, stopSteps, missing, feedVars>>

\* step 3: ShioajiClient.connect: credential check (sys.exit), login, CA
SjConnect ==
    /\ pc["main"] = "sj_connect"
    /\ IF sj.logged_in
       THEN /\ Goto("main", StartNext("sj_connect"))
            /\ UNCHANGED <<sj, pending, startInfo>>
       ELSE \E outcome \in IF missing \cap CredentialVars = {}
                            THEN {"ok", "no_cert_file", "login_fails"}
                            ELSE {"bad_credentials"} :
              CASE outcome = "ok" ->
                     /\ sj' = [api |-> TRUE, logged_in |-> TRUE]
                     /\ Goto("main", StartNext("sj_connect"))
                     /\ UNCHANGED <<pending, startInfo>>
                [] outcome = "login_fails" ->
                     /\ sj' = [api |-> TRUE, logged_in |-> FALSE]
                     /\ Fail
                     /\ UNCHANGED startInfo
                [] OTHER ->
                     /\ Exit
                     /\ UNCHANGED <<sj, pending>>
    /\ UNCHANGED <<cmVars, pure, running, gw, manager, registered, currentPrice, phase, stopInfo, stopSteps, missing, feedVars>>

\* step 4: get_api, ContractManager(api), MarketDataHandler(...)
Build ==
    /\ pc["main"] = "build"
    /\ IF sj.logged_in
       THEN /\ manager' = TRUE
            /\ subscribed' = {}
            /\ cache' = {}
            /\ calls' = <<>>
            /\ Goto("main", StartNext("build"))
            /\ UNCHANGED pending
       ELSE /\ Fail
            /\ UNCHANGED <<manager, subscribed, cache, calls>>
    /\ UNCHANGED <<live, directory, lastOp, pure, running, gw, sj, registered, currentPrice, phase, startInfo, stopInfo, stopSteps, missing, feedVars>>

\* step 5: _setup_market_callbacks
Callbacks ==
    /\ pc["main"] = "callbacks"
    /\ IF ~sj.logged_in \/ ~manager
       THEN Goto("main", StartNext("callbacks")) /\ UNCHANGED <<registered, pending>>
       ELSE \E ok \in BOOLEAN :
              IF ok THEN /\ registered' = TRUE
                         /\ Goto("main", StartNext("callbacks"))
                         /\ UNCHANGED pending
              ELSE /\ Fail
                   /\ UNCHANGED registered
    /\ UNCHANGED <<cmVars, pure, running, gw, sj, manager, currentPrice, phase, startInfo, stopInfo, stopSteps, missing, feedVars>>

\* step 6: _emit_ready_status; reading the provider's version can raise,
\* GatewayClient.emit itself drops or swallows
Ready ==
    /\ pc["main"] = "ready"
    /\ \E ok \in BOOLEAN :
          IF ok THEN Goto("main", StartNext("ready")) /\ UNCHANGED pending
          ELSE Fail
    /\ UNCHANGED <<cmVars, pure, running, gw, sj, manager, registered, currentPrice, phase, startInfo, stopInfo, stopSteps, missing, feedVars>>

\* step 7: _start_snapshot_thread
Spawn ==
    /\ pc["main"] = "spawn"
    /\ pc' = [pc EXCEPT !["main"] = StartNext("spawn"), !["poll"] = "check"]
    /\ UNCHANGED <<cmVars, pure, running, pending, gw, sj, manager, registered, currentPrice, phase, startInfo, stopInfo, stopSteps, missing, feedVars>>

\* step 8: self._running = True
SetRunning ==
    /\ pc["main"] = "set_running"
    /\ running' = TRUE
    /\ phase' = "running"
    /\ Goto("main", StartNext("set_running"))
    /\ UNCHANGED <<cmVars, pure, pending, gw, sj, manager, registered, currentPrice, startInfo, stopInfo, stopSteps, missing, feedVars>>

\* _run_main_loop: while self._running
LoopCheck ==
    /\ pc["main"] = "loop"
    /\ IF running
       THEN Goto("main", "body") /\ UNCHANGED startInfo
       ELSE /\ Goto("main", "idle")
            /\ startInfo' = [startInfo EXCEPT !.result = "returned"]
    /\ calls' = <<>>
    /\ UNCHANGED <<subscribed, cache, live, directory, lastOp, pure, running, pending, gw, sj, manager, registered, currentPrice, phase, stopInfo, stopSteps, missing, feedVars>>

\* one iteration: _ensure_subscriptions
LoopBody ==
    /\ pc["main"] = "body"
    /\ IF manager /\ Positive(currentPrice)
       THEN \E p \in currentPrice :
              LET T == Resolved(p, DefaultRangeStrikes, "call")
              IN  \E outcome \in OutcomesFor(T),
                     failUnsub \in SUBSET ((subscribed \ T) \cap cache) :
                    DoRefresh(p, DefaultRangeStrikes, "call", outcome, failUnsub)
       ELSE UNCHANGED <<subscribed, cache, live, calls>>
    /\ Goto("main", "loop")
    /\ UNCHANGED <<directory, lastOp, pure, running, pending, gw, sj, manager, registered, currentPrice, phase, startInfo, stopInfo, stopSteps, missing, feedVars>>

\* KeyboardInterrupt inside the loop's try block: break, start() returns
KbdInBody ==
    /\ pc["main"] = "body"
    /\ Goto("main", "idle")
    /\ startInfo' = [startInfo EXCEPT !.result = "returned"]
    /\ UNCHANGED <<cmVars, pure, running, pending, gw, sj, manager, registered, currentPrice, phase, stopInfo, stopSteps, missing, feedVars>>

\* KeyboardInterrupt outside it: except KeyboardInterrupt of start() calls stop()
KbdAtLoop ==
    /\ pc["main"] = "loop"
    /\ pending' = "kbd"
    /\ Goto("main", "stop_check")
    /\ UNCHANGED <<cmVars, pure, running, gw, sj, manager, registered, currentPrice, phase, startInfo, stopInfo, stopSteps, missing, feedVars>>

\* except Exception of start(): _emit_error (sent only while the sink is
\* connected, its failure swallowed), then stop()
HandlerEmit ==
    /\ pc["main"] = "h_emit"
    /\ Goto("main", "stop_check")
    /\ UNCHANGED <<cmVars, pure, running, pending, gw, sj, manager, registered, currentPrice, phase, startInfo, stopInfo, stopSteps, missing, feedVars>>

\* where thread t enters stop(): the other thread calls it at any time
StopEntry(t) == IF t = "main" THEN "stop_check" ELSE "idle"

\* stop() ends in thread t; in the main thread start() then returns or raises
StopEnds(t, raised) ==
    /\ Goto(t, "idle")
    /\ IF t = "main"
       THEN /\ startInfo' = [startInfo EXCEPT !.result =
                                IF raised \/ pending = "error" THEN "raised" ELSE "returned"]
            /\ pending' = "none"
       ELSE UNCHANGED <<startInfo, pending>>

\* the statements of stop() in the order of the source: the guard, flag and
\* join, then unsubscribe_all, then shioaji.disconnect, then gateway.disconnect
StopNextProviderFirst(loc) ==
    CASE loc = "stop_check" -> "stop_sj"
      [] loc = "stop_sj" -> "stop_unsub"
      [] loc = "stop_unsub" -> "stop_gw"
      [] OTHER -> "idle"

StopNext(loc) ==
    CASE loc = "stop_check" -> "stop_unsub"
      [] loc = "stop_unsub" -> "stop_sj"
      [] loc = "stop_sj" -> "stop_gw"
      [] OTHER -> "idle"

StopDoes(t, steps) == stopSteps' = [stopSteps EXCEPT ![t] = @ \o steps]

\* stop() up to the join: the early return, or the flag cleared and
\* join(timeout=5), which goes on when the thread has ended or the wait ran out
StopCheck(t) ==
    /\ pc[t] = StopEntry(t)
    /\ stopInfo' = [from |-> phase, noop |-> StopReturnsEarly]
    /\ IF StopReturnsEarly
       THEN /\ StopEnds(t, FALSE)
            /\ phase' = IF t = "main" /\ phase = "starting" THEN "failed" ELSE phase
            /\ stopSteps' = [stopSteps EXCEPT ![t] = <<>>]
            /\ UNCHANGED running
       ELSE /\ running' = FALSE
            /\ phase' = "stopping"
            /\ stopSteps' = [stopSteps EXCEPT ![t] =
                               IF pc["poll"] = "check"
                               THEN <<"clear_running", "join">>
                               ELSE <<"clear_running">>]
            /\ Goto(t, StopNext("stop_check"))
            /\ UNCHANGED <<startInfo, pending>>
    /\ UNCHANGED <<cmVars, pure, gw, sj, manager, registered, currentPrice, missing, feedVars>>

StopUnsub(t) ==
    /\ pc[t] = "stop_unsub"
    /\ IF manager
       THEN /\ \E failUnsub \in SUBSET (subscribed \cap cache) : DoUnsubscribeAll(failUnsub)
            /\ StopDoes(t, <<"unsubscribe_all">>)
       ELSE UNCHANGED <<subscribed, live, calls, stopSteps>>
    /\ Goto(t, StopNext("stop_unsub"))
    /\ UNCHANGED <<cache, directory, lastOp, pure, running, pending, gw, sj, manager, registered, currentPrice, phase, startInfo, stopInfo, missing, feedVars>>

\* a disconnect that lets the exception of a failing logout through
ShioajiDisconnectUncaught(s, ok) ==
    IF s.api /\ s.logged_in
    THEN [sj |-> [s EXCEPT !.logged_in = ~ok], raised |-> ~ok]
    ELSE [sj |-> s, raised |-> FALSE]

\* ShioajiClient.disconnect: a failing logout is logged, _logged_in stays
ShioajiDisconnect(s, ok) ==
    IF s.api /\ s.logged_in
    THEN [sj |-> [s EXCEPT !.logged_in = ~ok], raised |-> FALSE]
    ELSE [sj |-> s, raised |-> FALSE]

\* self._shioaji.disconnect() in stop()
StopSj(t) ==
    /\ pc[t] = "stop_sj"
    /\ StopDoes(t, <<"close_provider">>)
    /\ \E ok \in IF sj.api /\ sj.logged_in THEN BOOLEAN ELSE {TRUE} :
          LET r == ShioajiDisconnect(sj, ok)
          IN  /\ sj' = r.sj
              /\ IF r.raised
                 THEN StopEnds(t, TRUE)
                 ELSE Goto(t, StopNext("stop_sj")) /\ UNCHANGED <<startInfo, pending>>
    /\ calls' = <<>>
    /\ UNCHANGED <<subscribed, cache, live, directory, lastOp, pure, running, gw, manager, registered, currentPrice, phase, stopInfo, missing, feedVars>>

\* GatewayClient.disconnect: an exception of the transport leaves stop()
StopGw(t) ==
    /\ pc[t] = "stop_gw"
    /\ StopDoes(t, <<"close_sink">>)
    /\ \E ok \in IF gw.client /\ gw.connected THEN BOOLEAN ELSE {TRUE} :
          /\ gw' = GatewayDisconnect(gw, ok)
          /\ StopEnds(t, ~ok)
    /\ phase' = IF phase = "stopping" THEN "stopped" ELSE phase
    /\ UNCHANGED <<cmVars, pure, running, sj, manager, registered, currentPrice, stopInfo, missing, feedVars>>

\* a snapshot thread that does not test the flag
SnapshotLoopGoesOnForever == TRUE

\* the loop condition of _snapshot_loop: while self._running
SnapshotLoopGoesOn == running

\* _snapshot_loop: while self._running is read as false, the thread ends
PollExit ==
    /\ pc["poll"] = "check"
    /\ ~SnapshotLoopGoesOn
    /\ Goto("poll", "idle")
    /\ UNCHANGED <<cmVars, pure, running, pending, gw, sj, manager, registered, currentPrice, phase, startInfo, stopInfo, stopSteps, missing, feedVars>>

\* one round: sleep, get_subscribed_contracts, _fetch_snapshots
PollRound ==
    /\ pc["poll"] = "check"
    /\ SnapshotLoopGoesOn
    /\ UNCHANGED vars

\* the provider delivers a tick: on_tick -> _update_current_price
OnTick(tick) ==
    /\ registered
    /\ sj.logged_in
    /\ pc["main"] # "exited"
    /\ currentPrice' = UpdateCurrentPrice(currentPrice, tick)
    /\ UNCHANGED <<cmVars, pure, running, pc, pending, gw, sj, manager, registered, phase, startInfo, stopInfo, stopSteps, missing, feedVars>>

SvcNext ==
    \/ StartCall
    \/ Validate
    \/ GwConnect
    \/ SjConnect
    \/ Build
    \/ Callbacks
    \/ Ready
    \/ Spawn
    \/ SetRunning
    \/ LoopCheck
    \/ LoopBody
    \/ KbdInBody
    \/ KbdAtLoop
    \/ HandlerEmit
    \/ \E t \in {"main", "ctl"} : StopCheck(t)
    \/ \E t \in {"main", "ctl"} : StopUnsub(t)
    \/ \E t \in {"main", "ctl"} : StopSj(t)
    \/ \E t \in {"main", "ctl"} : StopGw(t)
    \/ PollExit
    \/ PollRound
    \/ \E tick \in Ticks : OnTick(tick)

SpecService == SvcInit /\ [][SvcNext]_vars

----------------------------------------------------------------------------
(* MarketDataHandler and the callbacks, loops and sink events of the       *)
(* running service.  Each step leaves in fd what the step was given and    *)
(* the calls of gateway.emit it made.                                      *)

\* the callbacks and the snapshot handler read the clock at most MaxClock times
MaxClock == 2

\* longest list api.snapshots hands to handle_snapshot
MaxBatch == 2

\* the exceptions an attribute read or the sink can raise (subclasses of Exception)
AttrErrors == {"AttributeError", "TypeError", "ZeroDivisionError"}

SinkErrors == {"ConnectionError"}

\* the contract the provider's events are about
FeedCode == BuildContractKey(StrikeInterval, "call")

\* an optional code is the set of its values; None or missing: no value
NoCode == {}

\* bad: the attribute whose read raises, and the exception it raises
NoBad == [attr |-> "none", error |-> "none"]

BadReads == {NoBad} \cup [attr : {"code", "close"}, error : AttrErrors]

\* a raw tick: code, close (standing for the numeric fields, all read the
\* same way) and price
RawTicks ==
    {r \in [code : {NoCode, {FeedCode}}, close : TickValues,
            price : {NoNumber, Number(2 * StrikeInterval)}, bad : BadReads] :
        r.bad # NoBad => r.code = {FeedCode} /\ r.close = Number(StrikeInterval)}

\* a raw snapshot object: price and volume fields are read like close
RawQuotes ==
    {r \in [code : {NoCode, {FeedCode}}, close : {Number(StrikeInterval)}, bad : BadReads] :
        r.bad # NoBad => r.code = {FeedCode}}

\* a list attribute of a bid-ask object (bid_price, bid_volume, ask_price,
\* ask_volume, all read the same way): a list, possibly empty
QuoteLists == {<<>>, <<StrikeInterval>>}

\* a raw bid-ask object; an attribute it lacks reads with AttributeError
RawBidasks ==
    {r \in [code : {NoCode, {FeedCode}}, bid_price : {{l} : l \in QuoteLists},
            bad : {NoBad} \cup [attr : {"code", "bid_price"}, error : AttrErrors]] :
        r.bad # NoBad => r.code = {FeedCode} /\ r.bid_price = {<<StrikeInterval>>}}

\* what handle_snapshot loops over: the list it is given, or the list made
\* of the single object it is given
Batches ==
    {<<q>> : q \in RawQuotes}
        \cup {<<q1, q2>> : q1 \in {q \in RawQuotes : q.bad = NoBad},
                           q2 \in {q \in RawQuotes : q.bad = NoBad}}

\* the objects the provider delivers while the sink works as it should, and
\* the well-formed ones it delivers while the sink raises
GoodTick == [code |-> {FeedCode}, close |-> Number(StrikeInterval), price |-> NoNumber, bad |-> NoBad]

GoodQuote == [code |-> {FeedCode}, close |-> Number(StrikeInterval), bad |-> NoBad]

GoodBidask == [code |-> {FeedCode}, bid_price |-> {<<StrikeInterval>>}, bad |-> NoBad]

\* the sink of one handler call: its connected? probe or its emit may raise
SinkFaults == {"none", "probe", "emit"}

\* except Exception
HandlerCatchesNarrow(error) == error \in {"AttributeError", "TypeError"}

HandlerCatches(error) == error \in AttrErrors \cup SinkErrors

\* getattr(obj, attr, default): a missing attribute, or a read that raises
\* AttributeError, gives the default
Getattr(raw, attr) ==
    IF raw.bad.attr = attr /\ raw.bad.error # "AttributeError"
    THEN [error |-> raw.bad.error, value |-> {}]
    ELSE [error |-> "none", value |-> IF raw.bad.attr = attr THEN {} ELSE raw[attr]]

\* _safe_getattr: except (AttributeError, TypeError): return default
SafeGetattrPlain(raw, attr) == Getattr(raw, attr)

SafeGetattr(raw, attr) ==
    LET r == Getattr(raw, attr)
    IN  IF r.error \in {"AttributeError", "TypeError"}
        THEN [error |-> "none", value |-> {}]
        ELSE r

\* the first exception the reads of these attributes let through
FirstError(raw, attrs) ==
    IF \E i \in 1..Len(attrs) : SafeGetattr(raw, attrs[i]).error # "none"
    THEN SafeGetattr(raw, attrs[CHOOSE i \in 1..Len(attrs) :
                        /\ SafeGetattr(raw, attrs[i]).error # "none"
                        /\ \A j \in 1..(i - 1) : SafeGetattr(raw, attrs[j]).error = "none"]).error
    ELSE "none"

\* the attributes an extraction reads, in the order it reads them
ReadOrder(raw) ==
    IF "bid_price" \in DOMAIN raw THEN <<"code", "bid_price">> ELSE <<"code", "close">>

\* the result of an extraction: data holds the dictionary returned, if one
\* is; error the exception that left the extraction, if one did
ExtractedUnchecked(raw, payload) ==
    LET e == FirstError(raw, ReadOrder(raw))
    IN  IF e # "none"
        THEN [data |-> <<>>, error |-> IF HandlerCatches(e) THEN "none" ELSE e]
        ELSE [data |-> <<payload>>, error |-> "none"]

Extracted(raw, payload) ==
    LET e == FirstError(raw, ReadOrder(raw))
    IN  IF e # "none"
        THEN [data |-> <<>>, error |-> IF HandlerCatches(e) THEN "none" ELSE e]
        ELSE IF SafeGetattr(raw, "code").value = NoCode
        THEN [data |-> <<>>, error |-> "none"]
        ELSE [data |-> <<payload>>, error |-> "none"]

ExtractTickData(tick, now) ==
    Extracted(tick, [code |-> SafeGetattr(tick, "code").value,
                     close |-> SafeGetattr(tick, "close").value,
                     price |-> SafeGetattr(tick, "close").value,
                     timestamp |-> now])

ExtractBidaskData(bidask, now) ==
    Extracted(bidask, [code |-> SafeGetattr(bidask, "code").value,
                       bid_price |-> SafeGetattr(bidask, "bid_price").value,
                       timestamp |-> now])

ExtractSnapshotData(snapshot, now) ==
    Extracted(snapshot, [code |-> SafeGetattr(snapshot, "code").value,
                         close |-> SafeGetattr(snapshot, "close").value,
                         timestamp |-> now])

Emit(event, data) == [event |-> event, data |-> data]

\* the body shared by handle_tick and handle_bidask: x is the extraction,
\* times the last-emit dictionary.  emits: the calls of gateway.emit;
\* escaped: an exception reached the caller
HandleQuote(event, x, times, now, connected, fault) ==
    IF x.error # "none"
    THEN [emits |-> <<>>, times |-> times, escaped |-> ~HandlerCatches(x.error)]
    ELSE IF x.data = <<>>
    THEN [emits |-> <<>>, times |-> times, escaped |-> FALSE]
    ELSE IF fault = "probe"
    THEN [emits |-> <<>>, times |-> times, escaped |-> ~HandlerCatches("ConnectionError")]
    ELSE IF ~connected
    THEN [emits |-> <<>>, times |-> times, escaped |-> FALSE]
    ELSE IF fault = "emit"
    THEN [emits |-> <<Emit(event, x.data[1])>>, times |-> times,
          escaped |-> ~HandlerCatches("ConnectionError")]
    ELSE [emits |-> <<Emit(event, x.data[1])>>,
          times |-> [c \in DOMAIN times \cup x.data[1].code |->
                        IF c \in x.data[1].code THEN now ELSE times[c]],
          escaped |-> FALSE]

\* handle_tick: the event is built and emitted inside the call
HandleTickStale(tick, times, now, connected, fault) ==
    HandleQuote("market_tick", ExtractTickData(tick, now - 1), times, now, connected, fault)

HandleTick(tick, times, now, connected, fault) ==
    HandleQuote("market_tick", ExtractTickData(tick, now), times, now, connected, fault)

HandleBidask(bidask, times, now, connected, fault) ==
    HandleQuote("market_bidask", ExtractBidaskData(bidask, now), times, now, connected, fault)

\* the loop of handle_snapshot from element i on; the sink fault, if any,
\* happens at element faultAt.  One try block holds the whole loop.
RECURSIVE SnapshotLoop(_, _, _, _, _, _)
SnapshotLoop(batch, i, now, connected, fault, faultAt) ==
    IF i > Len(batch) THEN [emits |-> <<>>, escaped |-> FALSE]
    ELSE LET x == ExtractSnapshotData(batch[i], now)
             rest == SnapshotLoop(batch, i + 1, now, connected, fault, faultAt)
             raised == [emits |-> <<>>, escaped |-> ~HandlerCatches("ConnectionError")]
         IN  IF x.error # "none" THEN [emits |-> <<>>, escaped |-> ~HandlerCatches(x.error)]
             ELSE IF x.data = <<>> THEN rest
             ELSE IF fault = "probe" /\ faultAt = i THEN raised
             ELSE IF ~connected THEN rest
             ELSE IF fault = "emit" /\ faultAt = i
             THEN [raised EXCEPT !.emits = <<Emit("market_snapshot", x.data[1])>>]
             ELSE [rest EXCEPT !.emits = <<Emit("market_snapshot", x.data[1])>> \o @]

HandleSnapshot(snapshots, now, connected, fault, faultAt) ==
    SnapshotLoop(snapshots, 1, now, connected, fault, faultAt)

\* _update_current_price reads close and price with getattr(tick, attr, None)
\* inside try/except Exception
UpdateCurrentPriceFrom(current, tick) ==
    IF Getattr(tick, "close").error # "none" THEN current
    ELSE UpdateCurrentPrice(current, [close |-> Getattr(tick, "close").value,
                                      price |-> tick.price])

\* the calls of update_subscriptions one _ensure_subscriptions makes
EnsureSubscriptionsCallsNarrow(hasManager, price) ==
    IF ~hasManager \/ ~Positive(price) THEN <<>>
    ELSE <<[price |-> price, n |-> DefaultRangeStrikes - 1, type |-> "call"]>>

EnsureSubscriptionsCalls(hasManager, price) ==
    IF ~hasManager \/ ~Positive(price) THEN <<>>
    ELSE <<[price |-> price, n |-> DefaultRangeStrikes, type |-> "call"]>>

\* the payload _send_heartbeat builds
HeartbeatPayloadNoPrice ==
    [status |-> "running",
     shioaji_connected |-> sj.logged_in,
     gateway_connected |-> gw.connected,
     current_price |-> NoNumber,
     subscribed_contracts |-> IF manager THEN Cardinality(GetSubscribedContracts(Manager)) ELSE 0]

HeartbeatPayload ==
    [status |-> "running",
     shioaji_connected |-> sj.logged_in,
     gateway_connected |-> gw.connected,
     current_price |-> currentPrice,
     subscribed_contracts |-> IF manager THEN Cardinality(GetSubscribedContracts(Manager)) ELSE 0]

\* _send_heartbeat: nothing unless the sink is connected
SendHeartbeatUnguarded == <<Emit("heartbeat", HeartbeatPayload)>>

SendHeartbeat == IF gw.connected THEN <<Emit("heartbeat", HeartbeatPayload)>> ELSE <<>>

\* the service as start() leaves it when it enters the main loop
FeedInit ==
    /\ subscribed = {}
    /\ cache = {}
    /\ live = {}
    /\ directory \in SvcDirectories
    /\ calls = <<>>
    /\ lastOp = NoOp
    /\ pure = NoPure
    /\ running = TRUE
    /\ pc = [t \in Threads |-> IF t = "main" THEN "body" ELSE IF t = "poll" THEN "check" ELSE "idle"]
    /\ pending = "none"
    /\ gw = GatewayConnect(NoGateway, TRUE)
    /\ sj = [api |-> TRUE, logged_in |-> TRUE]
    /\ manager = TRUE
    /\ registered = TRUE
    /\ currentPrice = NoNumber
    /\ phase = "running"
    /\ startInfo = [from |-> "idle", result |-> "none"]
    /\ stopInfo = NoStop
    /\ stopSteps = [t \in {"main", "ctl"} |-> <<>>]
    /\ missing = {}
    /\ FeedIdle

feedFrame == <<directory, lastOp, pure, running, pc, pending, sj, manager, registered, phase, startInfo, stopInfo, stopSteps, missing, round, heartbeats>>

\* the step before was the delivery of a tick one of whose attribute reads raises
BadTickStep == fd.kind = "tick" /\ fd.raw[1].bad # NoBad

\* the provider delivers a tick: on_tick calls handle_tick, then
\* _update_current_price unless handle_tick raised
TickCallback(tick, fault) ==
    /\ registered /\ sj.logged_in /\ running
    /\ clock < MaxClock
    /\ clock' = clock + 1
    /\ LET r == HandleTick(tick, lastTickTime, clock + 1, gw.connected, fault)
       IN  /\ lastTickTime' = r.times
           /\ fd' = [kind |-> "tick", raw |-> <<tick>>, connected |-> gw.connected,
                     fault |-> fault, emits |-> r.emits, escaped |-> r.escaped,
                     at |-> clock + 1, afterBad |-> BadTickStep]
           /\ currentPrice' = IF r.escaped THEN currentPrice
                              ELSE UpdateCurrentPriceFrom(currentPrice, tick)
    /\ UNCHANGED <<subscribed, cache, live, calls, gw, lastBidaskTime, feedFrame>>

\* the provider delivers a bid-ask: on_bidask calls handle_bidask
BidaskCallback(bidask, fault) ==
    /\ registered /\ sj.logged_in /\ running
    /\ clock < MaxClock
    /\ clock' = clock + 1
    /\ LET r == HandleBidask(bidask, lastBidaskTime, clock + 1, gw.connected, fault)
       IN  /\ lastBidaskTime' = r.times
           /\ fd' = [kind |-> "bidask", raw |-> <<bidask>>, connected |-> gw.connected,
                     fault |-> fault, emits |-> r.emits, escaped |-> r.escaped,
                     at |-> clock + 1]
    /\ UNCHANGED <<subscribed, cache, live, calls, gw, currentPrice, lastTickTime, feedFrame>>

\* the snapshot thread fetches the snapshots of a subscribed contract and
\* hands them to handle_snapshot
SnapshotFetched(snapshots, fault, faultAt) ==
    /\ running /\ manager /\ sj.api
    /\ pc["poll"] = "check"
    /\ GetSubscribedContracts(Manager) # {}
    /\ clock < MaxClock
    /\ clock' = clock + 1
    /\ LET r == HandleSnapshot(snapshots, clock + 1, gw.connected, fault, faultAt)
       IN  fd' = [kind |-> "snapshot", raw |-> snapshots, connected |-> gw.connected,
                  fault |-> fault, emits |-> r.emits, escaped |-> r.escaped,
                  at |-> clock + 1]
    /\ UNCHANGED <<subscribed, cache, live, calls, gw, currentPrice, lastTickTime,
                   lastBidaskTime, feedFrame>>

\* one iteration of _run_main_loop: the heartbeat when it is due, then
\* _ensure_subscriptions when it is due
LoopIteration(heartbeatDue, updateDue, fault) ==
    /\ running
    /\ pc["main"] = "body"
    /\ LET beats == IF heartbeatDue THEN SendHeartbeat ELSE <<>>
           wanted == IF updateDue THEN EnsureSubscriptionsCalls(manager, currentPrice) ELSE <<>>
       IN  /\ fault = "emit" => beats # <<>>
           /\ fd' = [kind |-> "loop", heartbeatDue |-> heartbeatDue, updateDue |-> updateDue,
                     connected |-> gw.connected, fault |-> fault, emits |-> beats,
                     refresh |-> wanted]
           /\ IF wanted = <<>>
              THEN /\ calls' = <<>>
                   /\ UNCHANGED <<subscribed, cache, live>>
              ELSE \E p \in wanted[1].price :
                     LET T == Resolved(p, wanted[1].n, wanted[1].type)
                     IN  \E outcome \in OutcomesFor(T),
                            failUnsub \in SUBSET ((subscribed \ T) \cap cache) :
                           DoRefresh(p, wanted[1].n, wanted[1].type, outcome, failUnsub)
    /\ UNCHANGED <<gw, currentPrice, lastTickTime, lastBidaskTime, directory, lastOp, pure,
                   running, pc, pending, sj, manager, registered, phase, startInfo,
                   stopInfo, stopSteps, missing, round>>

\* an iteration of which only the two tests matter, not the time it takes
MainLoopIteration(heartbeatDue, updateDue, fault) ==
    /\ LoopIteration(heartbeatDue, updateDue, fault)
    /\ UNCHANGED <<clock, heartbeats>>

\* GatewayClient._on_disconnect: the transport is lost and the Socket.IO
\* client, built with reconnection enabled, starts to reconnect
GwDrop ==
    /\ gw.connected
    /\ gw' = [gw EXCEPT !.connected = FALSE, !.session = "retrying"]
    /\ fd' = NoFeed
    /\ UNCHANGED <<cmVars, currentPrice, clock, lastTickTime, lastBidaskTime, pure, running,
                   pc, pending, sj, manager, registered, phase, startInfo, stopInfo,
                   stopSteps, missing, round, heartbeats>>

\* GatewayClient._on_connect: the flag is set, then python_status is emitted
GwReconnect ==
    /\ gw.session = "retrying"
    /\ ~gw.connected
    /\ gw' = [gw EXCEPT !.connected = TRUE, !.session = "open"]
    /\ fd' = [kind |-> "connect", connected |-> TRUE,
              emits |-> <<Emit("python_status", [status |-> "connected"])>>]
    /\ UNCHANGED <<cmVars, currentPrice, clock, lastTickTime, lastBidaskTime, pure, running,
                   pc, pending, sj, manager, registered, phase, startInfo, stopInfo,
                   stopSteps, missing, round, heartbeats>>

FeedNext ==
    \/ \E tick \in RawTicks : TickCallback(tick, "none")
    \/ \E fault \in SinkFaults : TickCallback(GoodTick, fault)
    \/ \E bidask \in RawBidasks : BidaskCallback(bidask, "none")
    \/ \E fault \in SinkFaults : BidaskCallback(GoodBidask, fault)
    \/ \E snapshots \in Batches : SnapshotFetched(snapshots, "none", 1)
    \/ \E fault \in SinkFaults, faultAt \in 1..MaxBatch :
         SnapshotFetched(<<GoodQuote, GoodQuote>>, fault, faultAt)
    \/ \E heartbeatDue \in BOOLEAN, updateDue \in BOOLEAN, fault \in {"none", "emit"} :
         MainLoopIteration(heartbeatDue, updateDue, fault)
    \/ GwDrop
    \/ GwReconnect

SpecFeed == FeedInit /\ [][FeedNext]_vars

\* the running service and its sink: ticks are forwarded, the transport
\* drops and comes back, another thread calls stop()
SinkNext ==
    \/ \E tick \in RawTicks : TickCallback(tick, "none")
    \/ GwDrop
    \/ GwReconnect
    \/ StopCheck("ctl")
    \/ StopUnsub("ctl")
    \/ StopSj("ctl")
    \/ StopGw("ctl")

SpecSink == FeedInit /\ [][SinkNext]_vars

----------------------------------------------------------------------------
(* The main loop in time: the clock counts seconds                         *)

HeartbeatInterval == 10

\* the seconds the main loop is followed for
MaxTime == 25

\* the longest one iteration takes: time.sleep(1), then the heartbeat and the
\* refresh, which take their time
MaxIterationSeconds == 2

\* the test of the main loop: current_time % self._heartbeat_interval < 1
HeartbeatDue(current_time) == current_time % HeartbeatInterval < 1

\* the count of heartbeats per period after an iteration that read the time
\* current_time and sent this many heartbeats
CountBeats(h, current_time, sent) ==
    LET period == current_time \div HeartbeatInterval
    IN  IF period = h.period THEN [h EXCEPT !.count = @ + sent]
        ELSE [period |-> period, count |-> sent,
              closed |-> IF period = h.period + 1 THEN {h.count} ELSE {0}]

\* one iteration of _run_main_loop that reads the time, sleeps, sends the
\* heartbeat if the time read says so, refreshes, and takes took seconds
TimedIteration(took) ==
    /\ clock < MaxTime
    /\ LoopIteration(HeartbeatDue(clock), TRUE, "none")
    /\ clock' = clock + took
    /\ heartbeats' = CountBeats(heartbeats, clock, Len(fd'.emits))

BeatNext ==
    \/ \E took \in 1..MaxIterationSeconds : TimedIteration(took)
    \/ \E tick \in Ticks : OnTick(tick)

\* the running service, its sink connected, from a time at which a heartbeat
\* period begins
SpecBeat == FeedInit /\ [][BeatNext]_vars

----------------------------------------------------------------------------
(* The snapshot thread, one provider call at a time                        *)

\* what api.snapshots([contract]) does for one handle: a list of one snapshot,
\* an empty list, or an exception
SnapshotOutcomes == {"ok", "empty", "raises"}

\* the snapshot the provider returns for a handle
QuoteOf(contract) == [GoodQuote EXCEPT !.code = {contract}]

\* one turn of 'while self._running' up to the for loop of _fetch_snapshots:
\* no manager, nothing subscribed or no api ends the round without a call; an
\* exception of get_subscribed_contracts reaches 'except Exception: continue'
StartRound(hasManager, contracts, api, raises) ==
    IF ~hasManager THEN [NoRound EXCEPT !.status = "skipped"]
    ELSE IF raises THEN [NoRound EXCEPT !.status = "failed"]
    ELSE IF contracts = <<>> THEN [NoRound EXCEPT !.status = "done"]
    ELSE IF ~api THEN [NoRound EXCEPT !.status = "skipped", !.handles = contracts]
    ELSE [NoRound EXCEPT !.status = "fetching", !.handles = contracts]

\* a for loop that an exception of api.snapshots leaves
FetchStepAborting(r, outcome) ==
    LET contract == r.handles[r.i]
        n == [r EXCEPT !.called = Append(@, contract), !.i = @ + 1,
                       !.raised = IF outcome = "raises" THEN @ \cup {contract} ELSE @]
    IN  [n EXCEPT !.status = IF n.i > Len(n.handles) \/ outcome = "raises"
                             THEN "done" ELSE "fetching"]

\* one turn of the for loop of _fetch_snapshots: the call for the next handle;
\* its exception is logged and the loop goes on with the handle after it
FetchStep(r, outcome) ==
    LET contract == r.handles[r.i]
        n == [r EXCEPT !.called = Append(@, contract), !.i = @ + 1,
                       !.raised = IF outcome = "raises" THEN @ \cup {contract} ELSE @]
    IN  [n EXCEPT !.status = IF n.i > Len(n.handles) THEN "done" ELSE "fetching"]

\* the thread wakes up from its sleep and starts a round; reading the
\* subscribed set while the main thread refreshes it can raise
RoundStart(raises) ==
    /\ pc["poll"] = "check"
    /\ SnapshotLoopGoesOn
    /\ raises => manager /\ pc["main"] = "body"
    /\ round' = StartRound(manager, SetToSeq(GetSubscribedContracts(Manager)),
                           sj.logged_in, raises)
    /\ Goto("poll", IF round'.status = "fetching" THEN "fetch" ELSE "check")
    /\ fd' = NoFeed
    /\ UNCHANGED <<cmVars, pure, running, pending, gw, sj, manager, registered, currentPrice, phase, startInfo, stopInfo, stopSteps, missing, clock, lastTickTime, lastBidaskTime, heartbeats>>

\* api.snapshots for the next handle of the round, handle_snapshot on what
\* it returned
FetchOne(outcome, fault) ==
    /\ pc["poll"] = "fetch"
    /\ round' = FetchStep(round, outcome)
    /\ Goto("poll", IF round'.status = "done" THEN "check" ELSE "fetch")
    /\ IF outcome = "ok" /\ manager
       THEN LET snapshots == <<QuoteOf(round.handles[round.i])>>
                r == HandleSnapshot(snapshots, clock, gw.connected, fault, 1)
            IN  fd' = [kind |-> "snapshot", raw |-> snapshots, connected |-> gw.connected,
                       fault |-> fault, emits |-> r.emits, escaped |-> r.escaped,
                       at |-> clock]
       ELSE fault = "none" /\ fd' = NoFeed
    /\ UNCHANGED <<cmVars, pure, running, pending, gw, sj, manager, registered, currentPrice, phase, startInfo, stopInfo, stopSteps, missing, clock, lastTickTime, lastBidaskTime, heartbeats>>

\* the running service with its snapshot thread, the main loop and a stop()
\* call from another thread
PollNext ==
    \/ \E raises \in BOOLEAN : RoundStart(raises)
    \/ \E outcome \in SnapshotOutcomes, fault \in {"none", "emit"} : FetchOne(outcome, fault)
    \/ LoopCheck
    \/ LoopBody
    \/ \E tick \in Ticks : OnTick(tick)
    \/ StopCheck("ctl")
    \/ StopUnsub("ctl")
    \/ StopSj("ctl")
    \/ StopGw("ctl")
    \/ PollExit

SpecPoll == FeedInit /\ [][PollNext]_vars

\* the threads are scheduled again and again, and the adapter calls in
\* progress return: a snapshot call comes back, and the main thread does not
\* stay inside one iteration for ever
SpecPollFair ==
    /\ SpecPoll
    /\ WF_vars(LoopCheck)
    /\ WF_vars(PollExit)
    /\ WF_vars(\E outcome \in SnapshotOutcomes, fault \in {"none", "emit"} : FetchOne(outcome, fault))
    /\ []<>(pc["main"] # "body")

\* the running service while the provider replaces its contract directory:
\* the main loop's refreshes then unsubscribe what is no longer listed
PollRollNext ==
    \/ \E raises \in BOOLEAN : RoundStart(raises)
    \/ \E outcome \in SnapshotOutcomes : FetchOne(outcome, "none")
    \/ LoopCheck
    \/ LoopBody
    \/ \E tick \in Ticks : OnTick(tick)
    \/ DirectoryChange

SpecPollRoll == FeedInit /\ [][PollRollNext]_vars

----------------------------------------------------------------------------
(* Properties of the contract manager                                      *)

AllCodes == {BuildContractKey(s, t) : s \in DirStrikes, t \in OptionTypes}

CallCount(op, code, kind) ==
    Cardinality({i \in 1..Len(calls) :
                    calls[i].op = op /\ calls[i].code = code /\ calls[i].kind = kind})

CallsFor(code) == {i \in 1..Len(calls) : calls[i].code = code}

\* C1: after unsubscribe_all() returns, subscribed is empty, whatever it held
\* before and whether or not each provider unsubscribe call succeeded.
C1_UnsubscribeAllEmpties ==
    lastOp.kind = "unsubscribe_all" => subscribed = {}

\* C2: after a refresh that resolved a non-empty target set T, subscribed
\* holds no code outside T, whether or not the unsubscribe calls succeeded.
C2_NothingOutsideTarget ==
    (lastOp.kind = "refresh" /\ lastOp.T # {}) => subscribed \ lastOp.T = {}

\* C3: every code in subscribed is one for which the provider accepted a
\* subscribe call, with no successful unsubscribe of it since.
C3_SubscribedWasSubmitted ==
    \A code \in subscribed : code \in live

\* C4: a refresh with resolved target T (non-empty) and prior set S during
\* which no call failed issues exactly one tick subscribe and one bid-ask
\* subscribe for every code of T \ S, exactly one unsubscribe for every code
\* of S \ T and no call for a code of S \cap T.
C4_ExactDiffCalls ==
    (lastOp.kind = "refresh" /\ lastOp.T # {} /\ lastOp.clean) =>
        \A code \in AllCodes :
            /\ code \in lastOp.T \ lastOp.S =>
                    /\ CallCount("subscribe", code, "tick") = 1
                    /\ CallCount("subscribe", code, "bidask") = 1
                    /\ CallCount("unsubscribe", code, "all") = 0
            /\ code \in lastOp.S \ lastOp.T =>
                    /\ CallCount("unsubscribe", code, "all") = 1
                    /\ Cardinality(CallsFor(code)) = 1
            /\ code \in lastOp.S \cap lastOp.T => CallsFor(code) = {}

\* C21: a refresh whose resolved target set is empty issues no subscribe or
\* unsubscribe call and leaves subscribed as it was, whatever it held.
C21_EmptyTargetIsNoop ==
    (lastOp.kind = "refresh" /\ lastOp.T = {}) =>
        (calls = <<>> /\ subscribed = lastOp.S)

\* C21 witness: a refresh resolved nothing while contracts were subscribed.
C21_Witness ==
    /\ lastOp.kind = "refresh"
    /\ lastOp.T = {}
    /\ lastOp.S # {}
    /\ subscribed = lastOp.S

\* the directory is missing, or its access raised during the last refresh
DirectoryFailed ==
    \/ directory.shape = "missing"
    \/ /\ directory.raises # 0
       /\ directory.raises \in
             Range(CalculateTargetStrikes(CalculateAtmStrike(lastOp.price), lastOp.n))

\* C22: when the contract directory is missing or raises on access during a
\* refresh, subscribed after the refresh equals subscribed before it (and no
\* exception reaches the caller).
C22_FailureLeavesSubscribed ==
    (lastOp.kind = "refresh" /\ DirectoryFailed) => subscribed = lastOp.S

\* the codes for which the refresh issued a subscribe call of the given kind
\* with the given outcome
SubscribeCalled(kind, ok) ==
    {calls[i].code : i \in {j \in 1..Len(calls) :
        calls[j].op = "subscribe" /\ calls[j].kind = kind /\ calls[j].ok = ok}}

SubscribeFailed == SubscribeCalled("tick", FALSE) \cup SubscribeCalled("bidask", FALSE)

\* C27: within one refresh, a failed subscribe for one code of to_add does
\* not affect its siblings: the other codes of to_add still get their
\* subscribe calls; every code whose tick and bid-ask subscribe both
\* succeeded is in subscribed afterwards and every code whose subscribe
\* failed is not.
C27_SubscribeFailureIsolated ==
    (lastOp.kind = "refresh" /\ lastOp.T # {}) =>
        \A code \in lastOp.T \ lastOp.S :
            /\ code \in SubscribeCalled("tick", TRUE) \cap SubscribeCalled("bidask", TRUE)
                  => code \in subscribed
            /\ code \in SubscribeFailed => code \notin subscribed
            /\ SubscribeFailed \ {code} # {}
                  => /\ code \in SubscribeCalled("tick", TRUE) \cup SubscribeCalled("tick", FALSE)
                     /\ code \in subscribed <=>
                            code \in SubscribeCalled("tick", TRUE) \cap SubscribeCalled("bidask", TRUE)

\* C28: every contract for which the provider accepted a subscribe call
\* (tick or bid-ask), with no unsubscribe call issued for it afterwards, is in
\* subscribed, also when only one of the two subscribe calls of a code
\* succeeded.
C28_AcceptedIsTracked ==
    \A i \in 1..Len(calls) :
        (/\ calls[i].op = "subscribe"
         /\ calls[i].ok
         /\ ~\E j \in (i + 1)..Len(calls) :
                calls[j].op = "unsubscribe" /\ calls[j].code = calls[i].code)
            => calls[i].code \in subscribed

\* C5: in every reachable state subscribed is a subset of the cache keys, so
\* get_subscribed_contracts() returns one handle per subscribed code.
C5_SubscribedInCache ==
    /\ subscribed \subseteq cache
    /\ GetSubscribedContracts(Manager) = subscribed

\* C5 witness: after a refresh with a failed provider call, a code stays
\* subscribed that the directory no longer lists.
C5_Witness ==
    /\ lastOp.kind = "refresh"
    /\ ~lastOp.clean
    /\ \E code \in subscribed : code[2] \notin directory.strikes

RoundHalfUp(num, den) == (2 * num + den) \div (2 * den)

\* C6: for every price p > 0, atm(p) = round(p / strike_interval) *
\* strike_interval with ties rounding up; with interval 100: 17850 -> 17900,
\* 17950 -> 18000, 18000 -> 18000, 18050 -> 18100, 18449 -> 18400,
\* 18450 -> 18500.
C6_AtmRoundsHalfUp ==
    (pure.fn = "atm" /\ pure.done) =>
        /\ pure.result = RoundHalfUp(pure.arg, StrikeInterval) * StrikeInterval
        /\ pure.arg = 17850 => pure.result = 17900
        /\ pure.arg = 17950 => pure.result = 18000
        /\ pure.arg = 18000 => pure.result = 18000
        /\ pure.arg = 18050 => pure.result = 18100
        /\ pure.arg = 18449 => pure.result = 18400
        /\ pure.arg = 18450 => pure.result = 18500

\* C20: target_strikes(atm, N) is the ascending list of the values
\* atm + k * interval, k in -N..N, that are > 0; it has at most 2N + 1
\* elements and, for atm a multiple of the interval, every element is a
\* positive multiple of the interval; atm = 18000, N = 3 gives 17700..18300
\* (7 elements) and atm = 100, N = 2 gives 100, 200, 300.
C20_TargetStrikes ==
    (pure.fn = "strikes" /\ pure.done) =>
        LET atm == pure.arg[1]
            n == pure.arg[2]
            r == pure.result
        IN  /\ \A i, j \in 1..Len(r) : i < j => r[i] < r[j]
            /\ {r[i] : i \in 1..Len(r)} =
                  {v \in {atm + k * StrikeInterval : k \in (0 - n)..n} : v > 0}
            /\ Len(r) <= 2 * n + 1
            /\ atm % StrikeInterval = 0 =>
                  \A i \in 1..Len(r) : r[i] > 0 /\ r[i] % StrikeInterval = 0
            /\ (atm = 18000 /\ n = 3) =>
                  r = <<17700, 17800, 17900, 18000, 18100, 18200, 18300>>
            /\ (atm = 100 /\ n = 2) => r = <<100, 200, 300>>

\* C20 witness: the strikes around 100 with N = 2 were computed; 0 and -100
\* were left out.
C20_Witness ==
    /\ pure.fn = "strikes"
    /\ pure.done
    /\ pure.arg = <<100, 2>>
    /\ pure.result = <<100, 200, 300>>

----------------------------------------------------------------------------
(* Properties of the service                                               *)

\* the service moves between its states as the running flag says
PhaseAgreesWithFlag == (phase = "running") = running

\* C8: when start() has re-raised the error of a failed startup step, the
\* cleanup is done: the sink and the provider are disconnected and no poll
\* thread is left running.
C8_StartupFailureCleansUp ==
    (startInfo.result = "raised" /\ phase = "failed")
        => /\ ~gw.connected
           /\ ~sj.logged_in
           /\ pc["poll"] = "idle"

\* C9: a start() call made in any state other than idle (starting, running,
\* stopping or stopped) fails with the "already running" error.
C9_StartOutsideIdleRejected ==
    startInfo.from \in {"starting", "running", "stopping", "stopped"}
        => startInfo.result = "already_running"

\* C9 (amended): a start() call made while the service is running fails with
\* the "already running" error and performs no connect, no callback
\* registration and no emit: the call is one step that leaves the adapters,
\* the registration, the manager and every thread where they were.
C9_StartWhileRunningRejected ==
    [][(pc["main"] = "idle" /\ phase = "running" /\ startInfo' # startInfo)
          => /\ startInfo' = [from |-> "running", result |-> "already_running"]
             /\ UNCHANGED <<cmVars, running, pc, pending, gw, sj, manager,
                            registered, currentPrice, phase>>]_vars

\* C9 witness: a start() call made in the running state was rejected.
C9_Witness ==
    /\ startInfo = [from |-> "running", result |-> "already_running"]
    /\ gw.connected
    /\ registered

\* C10: a stop() call made when a first stop() has run (the service is
\* stopped) returns at once: no thread enters the body of stop(), no
\* unsubscribe and no disconnect is issued and no state changes.
C10_SecondStopIsNoop ==
    [][(phase = "stopped" /\ stopInfo' # stopInfo /\ stopInfo'.from = "stopped")
          => /\ stopInfo'.noop
             /\ \A t \in {"main", "ctl"} :
                   pc'[t] \in {"stop_unsub", "stop_sj", "stop_gw"} => pc'[t] = pc[t]
             /\ UNCHANGED <<cmVars, running, gw, sj, manager, registered,
                            currentPrice, phase>>]_vars

\* C10 witness: a stop() call made in the stopped state has returned at once.
C10_Witness ==
    /\ stopInfo = [from |-> "stopped", noop |-> TRUE]
    /\ phase = "stopped"
    /\ manager

\* the place of a step in the order stop() is to follow
StepRank(step) ==
    CASE step = "clear_running" -> 1
      [] step = "join" -> 2
      [] step = "unsubscribe_all" -> 3
      [] step = "close_provider" -> 4
      [] OTHER -> 5

\* C11: a stop() call that passes its guard performs its steps in the order
\* clear the running flag, join the poll thread, unsubscribe_all, close the
\* provider, close the sink: the flag is cleared first, the provider is closed
\* only after unsubscribe_all was called and the sink only after the provider.
C11_StopOrder ==
    \A t \in {"main", "ctl"} :
        LET s == stopSteps[t]
        IN  /\ \A i, j \in 1..Len(s) : i < j => StepRank(s[i]) < StepRank(s[j])
            /\ s # <<>> => s[1] = "clear_running"
            /\ \A i \in 1..Len(s) :
                  /\ s[i] = "close_provider" => \E j \in 1..(i - 1) : s[j] = "unsubscribe_all"
                  /\ s[i] = "close_sink" => \E j \in 1..(i - 1) : s[j] = "close_provider"

\* C11 witness: a stop() call made on the running service has run to its end.
C11_Witness ==
    /\ stopSteps["ctl"] = <<"clear_running", "join", "unsubscribe_all",
                            "close_provider", "close_sink">>
    /\ pc["ctl"] = "idle"
    /\ stopInfo.from = "running"

\* C12: when a required environment variable is missing, a start() call
\* ends in the environment validation step (the process exits there): it
\* never gets past it and neither the sink nor the provider is opened.
C12_MissingEnvExitsInValidation ==
    (missing # {} /\ startInfo.from # "none")
        => /\ pc["main"] \in {"validate", "exited"}
           /\ ~gw.client
           /\ ~sj.api

----------------------------------------------------------------------------
(* Properties of the market-data handler and of the running service        *)

HandlerSteps == {"tick", "bidask", "snapshot"}

\* C13: handle_tick, handle_bidask and handle_snapshot never let an exception
\* reach their caller, whatever the attribute reads of the raw object raise
\* and whether the sink's connected? probe or its emit raises.
C13_HandlersNeverRaise ==
    fd.kind \in HandlerSteps => ~fd.escaped

\* C13 witness: handle_tick called emit, emit raised, and handle_tick returned.
C13_Witness ==
    /\ fd.kind = "tick"
    /\ fd.fault = "emit"
    /\ fd.emits # <<>>
    /\ ~fd.escaped

\* the tick of this step has a code and fields that read without raising
WellFormedTick == fd.raw[1].bad = NoBad /\ fd.raw[1].code # NoCode

\* what handle_tick emits for the well-formed tick of this step
ExpectedTickEmit ==
    Emit("market_tick", [code |-> fd.raw[1].code, close |-> fd.raw[1].close,
                         price |-> fd.raw[1].close, timestamp |-> fd.at])

\* the well-formed tick that follows a tick whose read raised is emitted as
\* it is after any other step, and its emit time is recorded
NextTickEmittedNormally ==
    (fd.kind = "tick" /\ fd.afterBad /\ WellFormedTick /\ fd.connected /\ fd.fault = "none")
        => /\ fd.emits = <<ExpectedTickEmit>>
           /\ ~fd.escaped
           /\ lastTickTime[FeedCode] = fd.at

ReadSuppressesTick ==
    \/ fd.raw[1].bad.attr = "code"
    \/ fd.raw[1].bad.error \notin {"AttributeError", "TypeError"}

CodeNullOrAbsent(raw) ==
    \/ raw.bad = NoBad /\ raw.code = NoCode
    \/ raw.bad.attr = "code" /\ raw.bad.error = "AttributeError"

\* the elements of a list that have a code
WithCode(batch) == {i \in 1..Len(batch) : ~CodeNullOrAbsent(batch[i])}

\* C15: a tick, bid-ask or snapshot whose code is null or absent is never
\* emitted downstream and leaves last_tick_time and last_bidask_time as they
\* were.
C15_NoCodeNoEmit ==
    [][(clock' # clock /\ fd'.kind \in HandlerSteps) =>
          /\ \A i \in 1..Len(fd'.emits) : fd'.emits[i].data.code # NoCode
          /\ Len(fd'.emits) <= Cardinality(WithCode(fd'.raw))
          /\ (fd'.kind = "snapshot" \/ CodeNullOrAbsent(fd'.raw[1])) =>
                (lastTickTime' = lastTickTime /\ lastBidaskTime' = lastBidaskTime)]_vars

\* C15 witness: a tick without code arrived while the sink was connected and
\* an earlier tick had been emitted; nothing was emitted for it and the
\* recorded emit time is still the earlier one.
C15_Witness ==
    /\ fd.kind = "tick"
    /\ CodeNullOrAbsent(fd.raw[1])
    /\ fd.connected
    /\ fd.emits = <<>>
    /\ FeedCode \in DOMAIN lastTickTime
    /\ lastTickTime[FeedCode] < fd.at

\* C16: an event produced while the sink reports disconnected (tick, bid-ask,
\* snapshot or heartbeat) is dropped, not buffered: the step makes no emit,
\* and no later step emits it: a handler step emits only events built in
\* that step from the objects it was given, an iteration of the main loop
\* emits at most its own heartbeat, and a reconnection emits python_status
\* only.
C16_DisconnectedDrops ==
    /\ (fd.kind \in HandlerSteps \cup {"loop"} /\ ~fd.connected) => fd.emits = <<>>
    /\ fd.kind \in HandlerSteps =>
          /\ Len(fd.emits) <= Len(fd.raw)
          /\ \A i \in 1..Len(fd.emits) :
                /\ fd.emits[i].data.timestamp = fd.at
                /\ \E j \in 1..Len(fd.raw) : fd.emits[i].data.code = fd.raw[j].code
    /\ fd.kind = "loop" =>
          /\ Len(fd.emits) <= 1
          /\ fd.emits # <<>> => fd.heartbeatDue /\ fd.emits[1].event = "heartbeat"
    /\ fd.kind = "connect" =>
          \A i \in 1..Len(fd.emits) : fd.emits[i].event = "python_status"

\* C16 witness: a well-formed tick arrived while the sink was disconnected,
\* after the sink had been connected, and nothing was emitted.
C16_Witness ==
    /\ fd.kind = "tick"
    /\ fd.raw[1].bad = NoBad
    /\ fd.raw[1].code # NoCode
    /\ ~fd.connected
    /\ fd.fault = "none"
    /\ fd.emits = <<>>

\* the value _update_current_price reads from the tick of this step: close
\* when it is set and not zero, else price
CarriedPrice(tick) ==
    LET close == IF tick.bad.attr = "close" THEN NoNumber ELSE tick.close
    IN  IF close # NoNumber /\ close # Number(0) THEN close ELSE tick.price

\* a change of current_index_price is made by a tick callback whose tick
\* carries a value > 0, and is a change to that value
PriceChangesOnlyOnValidTick ==
    [][/\ currentPrice' # currentPrice =>
             /\ fd'.kind = "tick"
             /\ clock' # clock
             /\ currentPrice' = CarriedPrice(fd'.raw[1])
             /\ \E v \in CarriedPrice(fd'.raw[1]) : v > 0
       /\ (clock' # clock /\ fd'.kind = "tick" /\ fd'.raw[1].bad = NoBad
             /\ fd'.raw[1].close = NoNumber /\ fd'.raw[1].price = NoNumber) =>
             currentPrice' = currentPrice]_vars

PriceNullOrPositive == \A v \in currentPrice : v > 0

\* C17: current_index_price changes only in a tick callback whose tick
\* carries a close (or, failing that, a price) that is present and > 0, and
\* then becomes that value; a tick with close = null and price = null leaves
\* it unchanged; consequently it is null or > 0 in every reachable state.
C17_PriceFollowsValidTicks ==
    PriceChangesOnlyOnValidTick /\ []PriceNullOrPositive

\* C17 witness: a tick with close = null and price = null arrived after the
\* price had been set, and the price is still set.
C17_Witness ==
    /\ fd.kind = "tick"
    /\ fd.raw[1].bad = NoBad
    /\ fd.raw[1].close = NoNumber
    /\ fd.raw[1].price = NoNumber
    /\ currentPrice # NoNumber

\* C18: when the subscription refresh of the main loop fires while
\* current_index_price is null or <= 0, update_subscriptions is not invoked,
\* no subscribe or unsubscribe call is issued and subscribed and cache are
\* unchanged; with a valid price update_subscriptions(price, 8, call) is
\* invoked exactly once.
C18_RefreshNeedsPrice ==
    [][(fd'.kind = "loop" /\ fd'.updateDue) =>
          IF currentPrice = NoNumber \/ \E v \in currentPrice : v <= 0
          THEN /\ fd'.refresh = <<>>
               /\ calls' = <<>>
               /\ subscribed' = subscribed
               /\ cache' = cache
               /\ live' = live
          ELSE fd'.refresh = <<[price |-> currentPrice, n |-> 8, type |-> "call"]>>]_vars

\* C18 witness: the refresh fired before any price arrived and did nothing.
C18_Witness ==
    /\ fd.kind = "loop"
    /\ fd.updateDue
    /\ currentPrice = NoNumber
    /\ fd.refresh = <<>>
    /\ calls = <<>>
    /\ subscribed = {}

\* C19: every heartbeat emitted carries status "running", the connected
\* states of the provider and of the sink at that moment, the current value
\* of current_index_price (null if none yet) and the number of subscribed
\* contracts.
C19_HeartbeatPayload ==
    [][fd'.kind = "loop" =>
          \A i \in 1..Len(fd'.emits) :
              fd'.emits[i] = [event |-> "heartbeat",
                              data |-> [status |-> "running",
                                        shioaji_connected |-> sj.logged_in,
                                        gateway_connected |-> gw.connected,
                                        current_price |-> currentPrice,
                                        subscribed_contracts |-> Cardinality(subscribed)]]]_vars

\* C19 witness: with two contracts subscribed, a price and both adapters
\* connected, a heartbeat with count 2 was emitted.
C19_Witness ==
    /\ fd.kind = "loop"
    /\ fd.emits # <<>>
    /\ fd.emits[1].data.subscribed_contracts = 2
    /\ fd.emits[1].data.current_price # NoNumber
    /\ fd.emits[1].data.shioaji_connected
    /\ fd.emits[1].data.gateway_connected
    /\ Cardinality(subscribed) = 2

\* C23: in every emitted market_bidask payload the bid and ask lists are
\* lists (possibly empty) and never null, for every raw bid-ask object with a
\* code, including one that lacks some of those attributes.
C23_BidaskListsNeverNull ==
    fd.kind = "bidask" =>
        \A i \in 1..Len(fd.emits) :
            /\ fd.emits[i].data.bid_price # {}
            /\ \A l \in fd.emits[i].data.bid_price : l \in QuoteLists

\* C24: with callbacks delivered one at a time, the market_tick events passed
\* to the sink for a code are in the order of the provider's callbacks: a
\* callback emits at most one event, the event of the tick it delivers, in
\* the callback itself, hence after the event of every tick delivered before.
C24_TickOrderKept ==
    [][(clock' # clock /\ fd'.kind = "tick" /\ fd'.emits # <<>>) =>
          /\ Len(fd'.emits) = 1
          /\ fd'.emits[1].event = "market_tick"
          /\ fd'.emits[1].data.code = fd'.raw[1].code
          /\ fd'.emits[1].data.timestamp = clock'
          /\ clock' > clock
          /\ \A c \in DOMAIN lastTickTime : lastTickTime[c] < fd'.emits[1].data.timestamp]_vars

\* C24 witness: a tick of a code was passed to the sink after an earlier tick
\* of the same code had been.
C24_Witness ==
    /\ fd.kind = "tick"
    /\ fd.emits # <<>>
    /\ fd.raw[1].code = {FeedCode}
    /\ FeedCode \in DOMAIN lastTickTime
    /\ lastTickTime[FeedCode] < fd.at

\* the elements of the last snapshot batch that have a payload to emit
Emittable ==
    {i \in 1..Len(fd.raw) : ExtractSnapshotData(fd.raw[i], fd.at).data # <<>>}

\* C30: handle_snapshot on a list: a failure at one element (malformed input,
\* missing attribute, null code, an error of the sink on emit) does not abort
\* the batch: while the sink is connected, gateway.emit is called for every
\* element that has a non-null code.
C30_SnapshotFailureIsolated ==
    (fd.kind = "snapshot" /\ fd.connected /\ fd.fault \in {"none", "emit"}) =>
        /\ Len(fd.emits) = Cardinality(Emittable)
        /\ \A i \in Emittable :
              \E j \in 1..Len(fd.emits) :
                  fd.emits[j] = Emit("market_snapshot",
                                     ExtractSnapshotData(fd.raw[i], fd.at).data[1])

----------------------------------------------------------------------------
(* Properties of the startup sequence and of the poll thread               *)

\* C25: once start() has started the snapshot thread and entered the main
\* loop, the thread keeps performing rounds for as long as the service is
\* running: it ends only after stop() has cleared the running flag.
C25_PollAliveWhileRunning ==
    running => pc["poll"] = "check"

\* the steps of a start() call in the order they are to be performed
StartOrder ==
    <<"validate", "gw_connect", "sj_connect", "build", "callbacks", "ready",
      "spawn", "set_running", "loop", "body">>

\* where a start() call is when one of its steps fails or the service is
\* stopped: not a step of the sequence
StartLeaves == {"h_emit", "exited", "stop_check", "idle"}

\* what each step of start() leaves behind once it is done
StepDone(step) ==
    CASE step = "gw_connect" -> gw.client
      [] step = "sj_connect" -> sj.api
      [] step = "build" -> manager
      [] step = "callbacks" -> registered
      [] step = "spawn" -> pc["poll"] # "exited"
      [] step = "set_running" -> phase = "running"
      [] OTHER -> TRUE

\* C26: a start() call that reaches the main loop has performed its steps each
\* exactly once and in the order: environment validation, sink connect,
\* provider connect, construction of manager and handler, registration of the
\* callbacks, emit of shioaji_ready, start of the poll thread, first iteration
\* of the main loop. The main thread enters a step only from the step before
\* it (the validation only from idle, by the call; the loop test also from
\* the iteration before), and leaves it only to the
\* step after it or by a failure; the poll thread is started by the spawn
\* step and by nothing else.
C26_StartStepsInOrder ==
    [][/\ \A i \in 1..Len(StartOrder) :
            /\ (pc'["main"] = StartOrder[i] /\ pc["main"] # StartOrder[i])
                  => \/ pc["main"] = (IF i = 1 THEN "idle" ELSE StartOrder[i - 1])
                     \/ pc["main"] = "body" /\ pc'["main"] = "loop"
            /\ (pc["main"] = StartOrder[i] /\ pc'["main"] # StartOrder[i] /\ i < Len(StartOrder))
                  => pc'["main"] \in {StartOrder[i + 1]} \cup StartLeaves
       /\ (pc["poll"] = "idle" /\ pc'["poll"] = "check")
             => pc["main"] = "spawn" /\ pc'["main"] = "set_running"
       /\ (pc["main"] = "loop" /\ pc'["main"] = "body")
             => \A i \in 1..Len(StartOrder) : StepDone(StartOrder[i])]_vars

\* C26 witness: a start() call made on the idle service is in the first
\* iteration of its main loop, every step before it done.
C26_Witness ==
    /\ pc["main"] = "body"
    /\ startInfo = [from |-> "idle", result |-> "none"]
    /\ gw.client /\ sj.api /\ manager /\ registered /\ running
    /\ calls = <<>>

\* C29: in one round of the snapshot thread over the handles h1..hn, an
\* exception of the snapshot call for one handle does not abort the round:
\* api.snapshots is called exactly once for each handle, in the order of the
\* list; and an exception in a round does not end the thread, which ends only
\* once the running flag is cleared.
C29_RoundCallsEachHandleOnce ==
    /\ round.status \in {"fetching", "done"}
          => /\ round.i <= Len(round.handles) + 1
             /\ round.called = SubSeq(round.handles, 1, round.i - 1)
    /\ round.status = "done" => round.called = round.handles
    /\ round.status = "fetching" <=> pc["poll"] = "fetch"
    /\ pc["poll"] = "idle" => ~running

\* C29 witness: a round over two handles is done, the call for the first
\* handle raised, both handles were called and the thread goes on.
C29_Witness ==
    /\ round.status = "done"
    /\ Len(round.handles) = 2
    /\ round.handles[1] \in round.raised
    /\ round.called = round.handles
    /\ pc["poll"] = "check"
    /\ running

\* the codes for which the refresh that has just returned in the main thread
\* issued an unsubscribe call
JustUnsubscribed ==
    IF pc["main"] = "loop"
    THEN {calls[i].code : i \in {j \in 1..Len(calls) : calls[j].op = "unsubscribe"}}
    ELSE {}

\* C31: once a refresh that performed unsubscribe(X) has returned, a round of
\* the snapshot thread that obtains its handle list afterwards does not find
\* X in get_subscribed_contracts() and issues no snapshot call for X.
C31_UnsubscribedNotPolled ==
    [][(pc["poll"] = "check" /\ round' # round /\ pc' # pc)
          => \A code \in JustUnsubscribed :
                /\ code \notin GetSubscribedContracts(Manager)
                /\ code \notin Range(round'.handles)]_vars

StopLocations == {"stop_check", "stop_unsub", "stop_sj", "stop_gw"}

\* C32: a stop() call made on the running service goes through all its steps
\* whatever fails on the way: a failing unsubscribe or a failing logout is
\* logged, and shioaji.disconnect and gateway.disconnect are called in every
\* stop() call that has cleared the running flag and has ended.
C32_TeardownGoesOn ==
    \A t \in {"main", "ctl"} :
        (stopSteps[t] # <<>> /\ pc[t] \notin StopLocations \cup {"exited"})
            => {"close_provider", "close_sink"} \subseteq Range(stopSteps[t])

\* C32 witness: a stop() call made on the running service has ended; an
\* unsubscribe failed (the code is still subscribed) and the logout failed
\* (the provider is still logged in), and both adapters were closed.
C32_Witness ==
    /\ pc["ctl"] = "idle"
    /\ stopInfo.from = "running"
    /\ stopSteps["ctl"] = <<"clear_running", "join", "unsubscribe_all",
                            "close_provider", "close_sink">>
    /\ subscribed # {}
    /\ sj.logged_in

\* a stop() call that cleared the running flag has returned
StopReturned == phase = "stopped"

\* C33: after stop() has returned subscribed is empty and stays empty, and no
\* subscribe, unsubscribe or snapshot call is issued to the provider any
\* more, however stop() interleaves with an iteration of the main loop and
\* with a round of the snapshot thread.
C33_QuietAfterStop ==
    /\ [](StopReturned => subscribed = {})
    /\ [][StopReturned => /\ calls' \in {calls, <<>>}
                          /\ round'.called \in {round.called, <<>>}]_vars

C35_OneHeartbeatPerPeriod ==
    /\ heartbeats.count <= 1
    /\ \A n \in heartbeats.closed : n = 1

\* C36: after the sink's disconnect() has returned, connected? is false and
\* stays false, with no reconnect of its own, until connect() is called
\* again, whatever the state of the transport was when disconnect() was called.
C36_DisconnectedStaysDown ==
    gw.asked = "disconnect" => ~gw.connected

\* the steps of stop() performed so far by the stop() calls of either thread
StopStepsDone == Range(stopSteps["main"]) \cup Range(stopSteps["ctl"])

\* a start() call that had set the running flag has returned or raised
StartEndedAfterRunning ==
    /\ pc["main"] = "idle"
    /\ startInfo.from = "idle"
    /\ startInfo.result \in {"returned", "raised"}
    /\ phase \in {"running", "stopping", "stopped"}

\* C37: whenever start() returns or raises after the running flag was set, the
\* service is stopped: the flag is false, unsubscribe_all has been called and
\* both adapters have been disconnected, also when the main loop is left
\* through a keyboard interrupt caught inside the loop.
C37_StartEndsStopped ==
    StartEndedAfterRunning
        => /\ ~running
           /\ {"unsubscribe_all", "close_provider", "close_sink"} \subseteq StopStepsDone

\* the call of the provider's subscribe is among the adapter calls of the step
SubscribeIssued == \E i \in 1..Len(calls) : calls[i].op = "subscribe"

\* the tick of this step carries a close or a price that is > 0
TickCarriesPositive(tick) == Positive(tick.close) \/ Positive(tick.price)

\* C38: while current_index_price is null no subscribe call is issued and
\* subscribed is empty, and current_index_price leaves null only in a tick
\* callback whose tick carries a close or a price > 0; that callback runs
\* while nothing is subscribed, so every step that is not such a tick
\* delivery keeps subscribed empty and the price null.
C38_NoPriceNoSubscription ==
    /\ [](currentPrice = NoNumber => subscribed = {} /\ ~SubscribeIssued)
    /\ [][(currentPrice = NoNumber /\ subscribed = {}) =>
            \/ currentPrice' = NoNumber /\ subscribed' = {} /\ ~SubscribeIssued'
            \/ /\ fd'.kind = "tick"
               /\ clock' # clock
               /\ TickCarriesPositive(fd'.raw[1])
               /\ subscribed' = {}]_vars

\* C38 witness: the refresh of the main loop came due after a tick without a
\* usable price, the price is still null and nothing is subscribed.
C38_Witness ==
    /\ fd.kind = "loop"
    /\ fd.updateDue
    /\ fd.refresh = <<>>
    /\ lastTickTime # NoTimes
    /\ currentPrice = NoNumber
    /\ subscribed = {}
    /\ ~SubscribeIssued

\* what the lookup returns when no access raises: the attribute of that name
\* if the directory has it, else the keyed entry if the directory is a keyed
\* collection holding the key, else null
LookupValue(options, key) ==
    IF options.shape = "attr" /\ key[2] \in options.strikes THEN key
    ELSE IF options.shape = "dict" /\ key[2] \in options.strikes THEN key
    ELSE None

\* C39: the safe lookup of a key returns the directory's attribute of that
\* name if it exists, otherwise the keyed entry if the directory is a keyed
\* collection containing the key, otherwise null; and it never raises,
\* whatever exception the access of the directory raises.
C39_SafeLookupNeverRaises ==
    (pure.fn = "lookup" /\ pure.done) =>
        /\ ~pure.result.raised
        /\ pure.arg[3] = "none" => pure.result.value = LookupValue(pure.arg[1], pure.arg[2])

====
